---------------------------- MODULE Spec2Model ----------------------------
(***************************************************************************)
(* A model of the event-study engine of crypto-event-study:                *)
(*   core/data.py         to_returns, ensure_symbol_frame                  *)
(*   core/stats.py        ols_alpha_beta, bootstrap_car_ci                 *)
(*   core/event_study.py  _slice_window, _market_model_ar, run_event_study *)
(*                                                                         *)
(* Conventions of the model                                                *)
(*   - A timestamp is an integer number of clock ticks; one hour is        *)
(*     TicksPerHour ticks, so that an observation can lie off the hour.    *)
(*   - A float is NaN or an exact rational <<num, den>> in lowest terms    *)
(*     with den > 0: the arithmetic is that of the reals, rounding is not  *)
(*     modelled.                                                           *)
(*   - A pandas Series is a sequence of points [t |-> label, v |-> float]  *)
(*     in index order.                                                     *)
(*   - A close price is held by its natural logarithm, in integer units;   *)
(*     prices are positive.                                                *)
(***************************************************************************)
EXTENDS Integers, Sequences, FiniteSets, TLC

VARIABLES
    pc,            \* position of the running call
    prices,        \* run_event_study: the price table
    bench_prices,  \* run_event_study: the benchmark price table, or None
    events,        \* run_event_study: the event table (a sequence of rows)
    symbol,        \* run_event_study: the target symbol
    cfg,           \* run_event_study: ModelCfg
    windows,       \* run_event_study: Windows
    rng,           \* the raw draws of np.random.default_rng(random_state)
    row,           \* run_event_study: rows of the event table consumed so far
    sym_ret,       \* run_event_study: the target's return series
    bench_ret,     \* run_event_study: the benchmark's return series, or None
    per_event,     \* run_event_study: the EventResults collected so far
    boot_calls,    \* run_event_study: the calls made to bootstrap_car_ci so far
    result,        \* run_event_study: the AggregateResult, or the error raised
    args,          \* a direct call of a library function: its arguments
    ret            \* a direct call of a library function: its return value

runVars == <<prices, bench_prices, events, symbol, cfg, windows,
             row, sym_ret, bench_ret, per_event, boot_calls, result>>
callVars == <<args, ret>>
vars == <<pc, rng, runVars, callVars>>

-----------------------------------------------------------------------------
(* Bounds of the model *)

TicksPerHour == 2      \* resolution of the clock
SliceTicks == 5        \* _slice_window alone: observations lie in 0..SliceTicks
SliceSpan == 1         \* _slice_window alone: window offsets lie in -SliceSpan..SliceSpan

-----------------------------------------------------------------------------
(* Floats: NaN or an exact rational *)

None == "None"        \* a str-valued option left out (cfg.benchmark), or an unused variable
Nothing == <<>>       \* Optional[x]: Nothing for None, Some(x) for a value
Some(x) == <<x>>
NaN == <<>>

\* a sequence written as a function over 1..n, as a tuple: evaluated once,
\* not at each use
Tuple(f) == f \o <<>>

IsNaN(x) == x = NaN

Abs(n) == IF n < 0 THEN -n ELSE n

RECURSIVE GCD(_, _)
GCD(a, b) == IF b = 0 THEN a ELSE GCD(b, a % b)

\* n / d in lowest terms, d # 0
Rat(n, d) ==
    LET g == GCD(Abs(n), Abs(d))
        s == IF d < 0 THEN -1 ELSE 1
    IN  <<(s * n) \div g, (s * d) \div g>>

Num(n) == <<n, 1>>

FAdd(a, b) ==
    IF IsNaN(a) \/ IsNaN(b) THEN NaN
    ELSE Rat(a[1] * b[2] + b[1] * a[2], a[2] * b[2])

FSub(a, b) ==
    IF IsNaN(a) \/ IsNaN(b) THEN NaN
    ELSE Rat(a[1] * b[2] - b[1] * a[2], a[2] * b[2])

FMul(a, b) ==
    IF IsNaN(a) \/ IsNaN(b) THEN NaN
    ELSE Rat(a[1] * b[1], a[2] * b[2])

\* a / n for an integer n > 0
FDivInt(a, n) == IF IsNaN(a) THEN NaN ELSE Rat(a[1], a[2] * n)

FLess(a, b) == a[1] * b[2] < b[1] * a[2]

-----------------------------------------------------------------------------
(* Series *)

Point(t, v) == [t |-> t, v |-> v]

Labels(s) == {s[k].t : k \in 1..Len(s)}

\* the value at label t, NaN when the index has no such label
At(s, t) ==
    IF \E k \in 1..Len(s) : s[k].t = t
    THEN s[CHOOSE k \in 1..Len(s) : s[k].t = t].v
    ELSE NaN

\* Series.dropna()
RECURSIVE DropNa(_)
DropNa(s) ==
    IF s = <<>> THEN <<>>
    ELSE IF IsNaN(Head(s).v) THEN DropNa(Tail(s))
    ELSE <<Head(s)>> \o DropNa(Tail(s))

\* Series.reindex(idx): one point per label of idx, NaN where s has no such label
Reindex(s, idx) == Tuple([k \in 1..Len(idx) |-> Point(idx[k], At(s, idx[k]))])

\* pd.date_range(from, to, freq="h"): from, from + 1h, ... up to to
DateRange(from, to) ==
    IF to < from THEN <<>>
    ELSE Tuple([k \in 1..((to - from) \div TicksPerHour + 1) |->
                   from + (k - 1) * TicksPerHour])

MinLabel(s) == CHOOSE t \in Labels(s) : \A u \in Labels(s) : t <= u
MaxLabel(s) == CHOOSE t \in Labels(s) : \A u \in Labels(s) : u <= t

\* Series.asfreq("h"): onto the hourly grid that starts at the first label
AsFreq(s) ==
    IF s = <<>> THEN <<>>
    ELSE Reindex(s, DateRange(MinLabel(s), MaxLabel(s)))

\* a slice that keeps only the hours observed (s.loc[a:b] instead of reindex)
SliceWindowObserved(s, t0, window) ==
    DropNa(Reindex(AsFreq(s), DateRange(t0 + window[1] * TicksPerHour,
                                        t0 + window[2] * TicksPerHour)))

\* _slice_window(s, t0, window)
SliceWindow(s, t0, window) ==
    Reindex(AsFreq(s), DateRange(t0 + window[1] * TicksPerHour,
                                 t0 + window[2] * TicksPerHour))

-----------------------------------------------------------------------------
(* core/stats.py *)

MinPaired == 10        \* ols_alpha_beta: fewer paired rows give (0.0, 0.0)
BootMargin == 10       \* bootstrap_car_ci: history shorter than window_len + 10 gives NaN
LowPermille == 25      \* the 2.5th percentile
HighPermille == 975    \* the 97.5th percentile
RngRange == 4          \* a raw draw of the generator lies in 0..RngRange - 1

FDiv(a, b) ==
    IF IsNaN(a) \/ IsNaN(b) THEN NaN
    ELSE Rat(a[1] * b[2], a[2] * b[1])

\* the elements of a finite set of integers, ascending
RECURSIVE SortedSeq(_)
SortedSeq(S) ==
    IF S = {} THEN <<>>
    ELSE LET m == CHOOSE t \in S : \A u \in S : t <= u
         IN  <<m>> \o SortedSeq(S \ {m})

\* pd.concat([x, y], axis=1): one row per label of either index (an outer join)
ConcatColumns(x, y) ==
    LET idx == SortedSeq(Labels(x) \cup Labels(y))
    IN  Tuple([k \in 1..Len(idx) |->
                  [t |-> idx[k], x |-> At(x, idx[k]), y |-> At(y, idx[k])]])

\* DataFrame.dropna(): the rows with no missing cell
RECURSIVE DropNaRows(_)
DropNaRows(f) ==
    IF f = <<>> THEN <<>>
    ELSE IF IsNaN(Head(f).x) \/ IsNaN(Head(f).y) THEN DropNaRows(Tail(f))
    ELSE <<Head(f)>> \o DropNaRows(Tail(f))

\* the rows paired by position after dropping the missing values of each series
PairedRowsByPosition(x, y) ==
    LET dx == DropNa(x)
        dy == DropNa(y)
        n == IF Len(dx) < Len(dy) THEN Len(dx) ELSE Len(dy)
    IN  Tuple([k \in 1..n |-> [t |-> dx[k].t, x |-> dx[k].v, y |-> dy[k].v]])

\* xy = pd.concat([x, y], axis=1).dropna()
PairedRows(x, y) == DropNaRows(ConcatColumns(x, y))

\* the sum of a sequence of floats
RECURSIVE SumFloats(_)
SumFloats(a) ==
    IF a = <<>> THEN Num(0) ELSE FAdd(Head(a), SumFloats(Tail(a)))

\* np.linalg.lstsq([1 x], y): the least-squares solution, the one of least norm
\* when x is constant (the design matrix has rank 1)
Lstsq(xy) ==
    LET n == Len(xy)
        Sx == SumFloats(Tuple([k \in 1..n |-> xy[k].x]))
        Sy == SumFloats(Tuple([k \in 1..n |-> xy[k].y]))
        Sxx == SumFloats(Tuple([k \in 1..n |-> FMul(xy[k].x, xy[k].x)]))
        Sxy == SumFloats(Tuple([k \in 1..n |-> FMul(xy[k].x, xy[k].y)]))
        D == FSub(FMul(Num(n), Sxx), FMul(Sx, Sx))
    IN  IF D # Num(0)
        THEN LET slope == FDiv(FSub(FMul(Num(n), Sxy), FMul(Sx, Sy)), D)
             IN  <<FDivInt(FSub(Sy, FMul(slope, Sx)), n), slope>>
        ELSE LET c == xy[1].x
                 m == FDiv(FDivInt(Sy, n), FAdd(Num(1), FMul(c, c)))
             IN  <<m, FMul(c, m)>>

\* ols_alpha_beta(x, y): (alpha, beta)
OlsAlphaBeta(x, y) ==
    LET xy == PairedRows(x, y)
    IN  IF Len(xy) < MinPaired THEN <<Num(0), Num(0)>> ELSE Lstsq(xy)

\* Series.sum(): missing values are skipped
RECURSIVE Sum(_)
Sum(s) ==
    IF s = <<>> THEN Num(0)
    ELSE IF IsNaN(Head(s).v) THEN Sum(Tail(s))
    ELSE FAdd(Head(s).v, Sum(Tail(s)))

\* s.iloc[from : from + n], from counted from 0
ILoc(s, from, n) ==
    LET to == IF from + n > Len(s) THEN Len(s) ELSE from + n
    IN  IF to <= from THEN <<>> ELSE SubSeq(s, from + 1, to)

RECURSIVE InsertSorted(_, _)
InsertSorted(a, v) ==
    IF a = <<>> THEN <<v>>
    ELSE IF FLess(v, Head(a)) THEN <<v>> \o a
    ELSE <<Head(a)>> \o InsertSorted(Tail(a), v)

RECURSIVE SortFloats(_)
SortFloats(a) ==
    IF a = <<>> THEN <<>> ELSE InsertSorted(SortFloats(Tail(a)), Head(a))

RECURSIVE DropNaFloats(_)
DropNaFloats(a) ==
    IF a = <<>> THEN <<>>
    ELSE IF IsNaN(Head(a)) THEN DropNaFloats(Tail(a))
    ELSE <<Head(a)>> \o DropNaFloats(Tail(a))

\* np.nanpercentile(a, q), q in thousandths: linear interpolation between the
\* order statistics around position q * (n - 1); NaN for no value at all
NanPercentile(a, q) ==
    LET b == SortFloats(DropNaFloats(a))
        n == Len(b)
        lo == (q * (n - 1)) \div 1000
        fr == (q * (n - 1)) % 1000
    IN  IF n = 0 THEN NaN
        ELSE IF fr = 0 THEN b[lo + 1]
        ELSE FAdd(b[lo + 1], FMul(Rat(fr, 1000), FSub(b[lo + 2], b[lo + 1])))

\* rng.integers(0, high, size=n): the k-th raw draw scaled onto 0..high - 1
RngIntegers(g, high, n) == Tuple([k \in 1..n |-> (g[k] * high) \div RngRange])

\* the guard of bootstrap_car_ci: too little history to resample
BootTooShort(n, window_len) == n < window_len + BootMargin

\* bootstrap_car_ci(returns, window_len, n_iter) under the generator g: (low, high)
BootstrapCarCi(g, returns, window_len, n_iter) ==
    IF BootTooShort(Len(returns), window_len) THEN <<NaN, NaN>>
    ELSE LET starts == RngIntegers(g, Len(returns) - window_len, n_iter)
             sums == Tuple([k \in 1..n_iter |->
                              Sum(ILoc(returns, starts[k], window_len))])
         IN  <<NanPercentile(sums, LowPermille), NanPercentile(sums, HighPermille)>>

-----------------------------------------------------------------------------
(* core/data.py *)

Raise(msg) == [kind |-> "error", error |-> msg]

IsError(x) == x.kind = "error"

\* a positive price e^k, held by its exponent
Price(k) == [exp |-> k]

\* np.log of a price
NpLog(p) == Num(p.exp)

\* df["close"]: the close column as a series over the frame's index
CloseColumn(df) ==
    Tuple([k \in 1..Len(df.rows) |-> Point(df.rows[k].t, df.rows[k].close)])

\* to_returns(prices): np.log(prices).diff().dropna(), the difference between
\* consecutive observations, the first observation having none
ToReturns(p) ==
    IF Len(p) < 2 THEN <<>>
    ELSE Tuple([k \in 1..(Len(p) - 1) |->
                   Point(p[k + 1].t, FSub(NpLog(p[k + 1].v), NpLog(p[k].v)))])

RECURSIVE RowsOf(_, _)
RowsOf(rows, sym) ==
    IF rows = <<>> THEN <<>>
    ELSE IF Head(rows).symbol = sym THEN <<Head(rows)>> \o RowsOf(Tail(rows), sym)
    ELSE RowsOf(Tail(rows), sym)

RequiredColumns == {"open", "high", "low", "close"}

\* ensure_symbol_frame that also rejects a symbol without rows
EnsureSymbolFrameNonEmpty(df, sym) ==
    IF "symbol" \notin df.columns
    THEN Raise("Input prices DataFrame must have a 'symbol' column.")
    ELSE IF RequiredColumns \ df.columns # {} THEN Raise("Missing columns")
    ELSE IF RowsOf(df.rows, sym) = <<>> THEN Raise("No rows")
    ELSE [kind |-> "frame", columns |-> df.columns, rows |-> RowsOf(df.rows, sym)]

\* ensure_symbol_frame(df, symbol): the rows of the symbol, or the error raised
EnsureSymbolFrame(df, sym) ==
    IF "symbol" \notin df.columns
    THEN Raise("Input prices DataFrame must have a 'symbol' column.")
    ELSE IF RequiredColumns \ df.columns # {} THEN Raise("Missing columns")
    ELSE [kind |-> "frame", columns |-> df.columns, rows |-> RowsOf(df.rows, sym)]

-----------------------------------------------------------------------------
(* core/event_study.py *)

MinArLen == 3          \* a per-event interval needs more than 3 non-missing ARs
CiMargin == 10         \* ... and a history longer than that count + 10
MinFinalCars == 5      \* the aggregate interval needs 5 terminal CARs

\* Series.mean() of a series without missing values
Mean(s) == FDivInt(Sum(s), Len(s))

\* s - c, s + c, c * s for a scalar c
SeriesMinus(s, c) == Tuple([k \in 1..Len(s) |-> Point(s[k].t, FSub(s[k].v, c))])
SeriesPlus(s, c) == Tuple([k \in 1..Len(s) |-> Point(s[k].t, FAdd(s[k].v, c))])
SeriesTimes(s, c) == Tuple([k \in 1..Len(s) |-> Point(s[k].t, FMul(c, s[k].v))])

\* a - b for two series over the same index, matched by label
SeriesSub(a, b) ==
    Tuple([k \in 1..Len(a) |-> Point(a[k].t, FSub(a[k].v, At(b, a[k].t)))])

\* Series.cumsum(): the running sum; a missing value is skipped by the sum and
\* stays missing in the result
RECURSIVE CumSumFrom(_, _)
CumSumFrom(s, acc) ==
    IF s = <<>> THEN <<>>
    ELSE IF IsNaN(Head(s).v)
         THEN <<Head(s)>> \o CumSumFrom(Tail(s), acc)
         ELSE <<Point(Head(s).t, FAdd(acc, Head(s).v))>>
                 \o CumSumFrom(Tail(s), FAdd(acc, Head(s).v))

\* the running sum that carries a missing value on to every later position
RECURSIVE CumSumThrough(_, _)
CumSumThrough(s, acc) ==
    IF s = <<>> THEN <<>>
    ELSE <<Point(Head(s).t, FAdd(acc, Head(s).v))>>
            \o CumSumThrough(Tail(s), FAdd(acc, Head(s).v))

CumSumPropagating(s) == CumSumThrough(s, Num(0))

CumSum(s) == CumSumFrom(s, Num(0))

\* _market_model_ar with the mean-adjusted mean taken over the event window
MarketModelArEventMean(target_rets, bench_rets, t0, w) ==
    LET ev == SliceWindow(target_rets, t0, w.event)
        mu == IF Len(DropNa(ev)) > 0 THEN Mean(DropNa(ev)) ELSE Num(0)
    IN  <<SeriesMinus(ev, mu), mu, Num(0)>>

\* _market_model_ar(target_rets, bench_rets, t0, windows): <<ar, alpha, beta>>
MarketModelAr(target_rets, bench_rets, t0, w) ==
    LET est == DropNa(SliceWindow(target_rets, t0, w.estimation))
    IN  IF bench_rets = Nothing
        THEN LET mu == IF Len(est) > 0 THEN Mean(est) ELSE Num(0)
             IN  <<SeriesMinus(SliceWindow(target_rets, t0, w.event), mu), mu, Num(0)>>
        ELSE LET est_b == SliceWindow(bench_rets[1], t0, w.estimation)
                 fit == OlsAlphaBeta(est_b, est)
                 ev_t == SliceWindow(target_rets, t0, w.event)
                 ev_b == SliceWindow(bench_rets[1], t0, w.event)
                 fitted == SeriesPlus(SeriesTimes(ev_b, fit[2]), fit[1])
             IN  <<SeriesSub(ev_t, fitted), fit[1], fit[2]>>

\* pd.to_datetime(ts, utc=True): a zone-aware time as UTC ticks
ToDatetimeUtc(ts) == ts.local - ts.utcoffset

\* the guard of the per-event interval, met from the first non-missing AR on
WantsBootstrapFromOne(c, full_len, est_len) ==
    c.use_bootstrap /\ full_len > 0 /\ est_len > full_len + CiMargin

\* the guard of the per-event interval: bootstrapping enabled, more than 3
\* non-missing ARs, a history longer than their count + 10
WantsBootstrap(c, full_len, est_len) ==
    c.use_bootstrap /\ full_len > MinArLen /\ est_len > full_len + CiMargin

\* the body of the loop for one matching row r: the EventResult, and the call
\* made to bootstrap_car_ci if any
StudyEvent(r, sym, target_rets, bench_rets, c, w, g) ==
    LET t0 == ToDatetimeUtc(r.ts_utc)
        m == MarketModelAr(target_rets, bench_rets, t0, w)
        ar == m[1]
        full_len == Len(DropNa(ar))
        est_series == DropNa(SliceWindow(target_rets, t0, w.estimation))
        boot == WantsBootstrap(c, full_len, Len(est_series))
        ci == IF boot THEN BootstrapCarCi(g, est_series, full_len, c.n_boot)
              ELSE <<NaN, NaN>>
    IN  [res |-> [event_id |-> ToString(r.event_id), symbol |-> sym, t0 |-> t0,
                  ar |-> ar, car |-> CumSum(ar), alpha |-> m[2], beta |-> m[3],
                  car_ci |-> ci],
         calls |-> IF boot
                   THEN <<[event_id |-> ToString(r.event_id), returns |-> est_series,
                           window_len |-> full_len, n_iter |-> c.n_boot]>>
                   ELSE <<>>]

\* Series.reset_index(drop=True) of the values present alone
ResetIndexOfPresent(s) == Tuple([k \in 1..Len(DropNa(s)) |-> Point(k - 1, DropNa(s)[k].v)])

\* Series.reset_index(drop=True): positions 0, 1, ... for labels
ResetIndex(s) == Tuple([k \in 1..Len(s) |-> Point(k - 1, s[k].v)])

\* pd.concat(cols, axis=1): one row per label of any column, one cell per column
ConcatAll(cols) ==
    LET idx == SortedSeq(UNION {Labels(cols[e]) : e \in 1..Len(cols)})
    IN  Tuple([k \in 1..Len(idx) |->
                  [t |-> idx[k],
                   cells |-> Tuple([e \in 1..Len(cols) |-> At(cols[e], idx[k])])]])

\* the mean of the values present, NaN when none is
MeanSkipNa(cells) ==
    LET present == DropNaFloats(cells)
    IN  IF present = <<>> THEN NaN ELSE FDivInt(SumFloats(present), Len(present))

\* DataFrame.mean(axis=1)
RowMeans(f) == Tuple([k \in 1..Len(f) |-> Point(f[k].t, MeanSkipNa(f[k].cells))])

\* pd.RangeIndex(start, stop)
RangeIndex(start, stop) ==
    IF stop <= start THEN <<>> ELSE Tuple([k \in 1..(stop - start) |-> start + k - 1])

\* the columns of the events keeping their time labels (no reset_index)
AlignedArByLabel(pe) == RowMeans(ConcatAll(Tuple([e \in 1..Len(pe) |-> pe[e].ar])))

\* aligned_ar.mean(axis=1) over the position-indexed AR columns
AlignedArMean(pe) ==
    RowMeans(ConcatAll(Tuple([e \in 1..Len(pe) |-> ResetIndex(pe[e].ar)])))

\* e.car.dropna().iloc[-1], NaN for a CAR without any value
FinalCar(e) ==
    LET c == DropNa(e.car)
    IN  IF Len(c) > 0 THEN c[Len(c)].v ELSE NaN

\* an aggregate interval that counts every event, defined terminal CAR or not
AggregateCiCountingAll(pe) ==
    LET final_cars == Tuple([e \in 1..Len(pe) |-> FinalCar(pe[e])])
    IN  IF Len(final_cars) >= MinFinalCars
        THEN <<NanPercentile(final_cars, LowPermille),
               NanPercentile(final_cars, HighPermille)>>
        ELSE <<NaN, NaN>>

\* the aggregate interval: percentiles of the terminal CARs, given 5 of them
AggregateCi(pe) ==
    LET final_cars == DropNaFloats(Tuple([e \in 1..Len(pe) |-> FinalCar(pe[e])]))
    IN  IF Len(final_cars) >= MinFinalCars
        THEN <<NanPercentile(final_cars, LowPermille),
               NanPercentile(final_cars, HighPermille)>>
        ELSE <<NaN, NaN>>

\* lines 137-161: the aggregate of at least one EventResult
AggregateNonEmpty(pe, w) ==
    LET mean == AlignedArMean(pe)
        idx == RangeIndex(w.event[1], w.event[2] + 1)
    IN  IF Len(idx) # Len(mean) THEN Raise("Length mismatch")
        ELSE LET mean_ar == Tuple([k \in 1..Len(mean) |-> Point(idx[k], mean[k].v)])
             IN  [kind |-> "ok", mean_ar |-> mean_ar, mean_car |-> CumSum(mean_ar),
                  car_ci |-> AggregateCi(pe), per_event |-> pe]

\* the aggregate that answers no event with empty curves
AggregateOfOrEmpty(pe, w) ==
    IF pe = <<>>
    THEN [kind |-> "ok", mean_ar |-> <<>>, mean_car |-> <<>>,
          car_ci |-> <<NaN, NaN>>, per_event |-> pe]
    ELSE AggregateNonEmpty(pe, w)

\* lines 134-161, what follows the loop: the AggregateResult, or the error raised
AggregateOf(pe, w) ==
    IF pe = <<>> THEN Raise("No events for symbol") ELSE AggregateNonEmpty(pe, w)

-----------------------------------------------------------------------------
(* _slice_window called alone *)

IdleRun ==
    /\ prices = None /\ bench_prices = Nothing /\ events = <<>> /\ symbol = None
    /\ cfg = None /\ windows = None /\ row = 0 /\ sym_ret = <<>>
    /\ bench_ret = Nothing /\ per_event = <<>> /\ boot_calls = <<>>
    /\ result = [kind |-> "none"]

\* the series observed exactly at the ticks of T, ascending, the value at t being t + 1
RECURSIVE SeriesOn(_, _)
SeriesOn(T, from) ==
    IF \A t \in T : t < from THEN <<>>
    ELSE LET t == CHOOSE u \in T : u >= from /\ \A w \in T : w >= from => u <= w
         IN  <<Point(t, Num(t + 1))>> \o SeriesOn(T, t + 1)

SliceArgs ==
    {[s |-> SeriesOn(T, 0), t0 |-> t, window |-> <<a, b>>] :
        T \in SUBSET (0..SliceTicks), t \in 0..SliceTicks,
        a \in -SliceSpan..SliceSpan, b \in -SliceSpan..SliceSpan}

InitSlice ==
    /\ pc = "slice_call"
    /\ args \in {x \in SliceArgs : x.window[1] <= x.window[2]}
    /\ ret = None
    /\ rng = <<>>
    /\ IdleRun

CallSliceWindow ==
    /\ pc = "slice_call"
    /\ ret' = SliceWindow(args.s, args.t0, args.window)
    /\ pc' = "slice_done"
    /\ UNCHANGED <<args, rng, runVars>>

NextSlice == CallSliceWindow

SpecSlice == InitSlice /\ [][NextSlice]_vars

\* C1: for every return series, anchor and window with start <= end, the slice
\* has exactly end - start + 1 entries, the k-th labelled t0 + start + (k - 1)
\* hours, and holds a missing marker at each hour without an observation.
C1_SliceLength ==
    pc = "slice_done" =>
        LET a == args.window[1]
            b == args.window[2]
        IN  /\ Len(ret) = b - a + 1
            /\ \A k \in 1..Len(ret) :
                  /\ ret[k].t = args.t0 + (a + k - 1) * TicksPerHour
                  /\ ret[k].t \notin Labels(args.s) => IsNaN(ret[k].v)

\* a sparse, irregular series sliced: an hour without an observation in the output
C1_Witness ==
    /\ pc = "slice_done"
    /\ Len(args.s) >= 2
    /\ \E k \in 1..Len(args.s) : args.s[k].t % TicksPerHour # 0
    /\ Len(ret) = 2 * SliceSpan + 1
    /\ \E k \in 1..Len(ret) : IsNaN(ret[k].v)
    /\ \E k \in 1..Len(ret) : ~IsNaN(ret[k].v)

-----------------------------------------------------------------------------
(* ols_alpha_beta called alone *)

OlsLabels == 11        \* ols_alpha_beta alone: x is indexed 1..OlsLabels

OlsXValue(k, xpat) == (k * xpat) % 3

OlsYValue(k, xpat, ypat) ==
    CASE ypat = 0 -> 1 + 2 * OlsXValue(k, xpat)
      [] ypat = 1 -> k % 2
      [] OTHER -> k

\* x: the benchmark's window, every hour present, missing values kept as NaN
OlsX(xpat, xNaN) ==
    [k \in 1..OlsLabels |-> Point(k, IF k \in xNaN THEN NaN ELSE Num(OlsXValue(k, xpat)))]

\* y: the target's window after dropna, so hours are absent from its index
OlsY(xpat, ypat, absent, extra) ==
    LET idx == SortedSeq(((1..OlsLabels) \ absent) \cup extra)
    IN  [k \in 1..Len(idx) |-> Point(idx[k], Num(OlsYValue(idx[k], xpat, ypat)))]

OlsArgs ==
    {[x |-> OlsX(xpat, xNaN), y |-> OlsY(xpat, ypat, absent, extra)] :
        xpat \in 0..2, ypat \in 0..2, xNaN \in SUBSET {1, 4},
        absent \in SUBSET {2, 4}, extra \in {{}, {OlsLabels + 1}}}

InitOls ==
    /\ pc = "ols_call"
    /\ args \in OlsArgs
    /\ ret = None
    /\ rng = <<>>
    /\ IdleRun

CallOlsAlphaBeta ==
    /\ pc = "ols_call"
    /\ ret' = OlsAlphaBeta(args.x, args.y)
    /\ pc' = "ols_done"
    /\ UNCHANGED <<args, rng, runVars>>

NextOls == CallOlsAlphaBeta

SpecOls == InitOls /\ [][NextOls]_vars

\* the labels both series carry with a value
PairedLabels(x, y) ==
    {t \in Labels(x) \cap Labels(y) : ~IsNaN(At(x, t)) /\ ~IsNaN(At(y, t))}

RECURSIVE SumFn(_)
SumFn(f) ==
    IF DOMAIN f = {} THEN Num(0)
    ELSE LET t == CHOOSE u \in DOMAIN f : TRUE
         IN  FAdd(f[t], SumFn([u \in DOMAIN f \ {t} |-> f[u]]))

\* the residual of the fit (alpha, beta) at label t
Residual(x, y, fit, t) == FSub(At(y, t), FAdd(fit[1], FMul(fit[2], At(x, t))))

\* C5: x and y are paired by shared index label, rows with a missing value on
\* either side are removed; fewer than 10 paired rows give exactly (0.0, 0.0),
\* and 10 or more give the least-squares fit: the residuals over the paired
\* labels sum to zero and are orthogonal to x (the normal equations).
C5_OlsPairsByLabel ==
    pc = "ols_done" =>
        LET P == PairedLabels(args.x, args.y)
        IN  /\ Cardinality(P) < 10 => ret = <<Num(0), Num(0)>>
            /\ Cardinality(P) >= 10 =>
                  /\ SumFn([t \in P |-> Residual(args.x, args.y, ret, t)]) = Num(0)
                  /\ SumFn([t \in P |-> FMul(At(args.x, t),
                                             Residual(args.x, args.y, ret, t))]) = Num(0)

\* a fit over 10 or more rows whose positions differ between x and y
C5_Witness ==
    /\ pc = "ols_done"
    /\ Cardinality(PairedLabels(args.x, args.y)) >= 10
    /\ \E k \in (1..Len(args.y)) \cap (1..Len(args.x)) : args.y[k].t # args.x[k].t
    /\ \E k \in 1..Len(args.x) : IsNaN(args.x[k].v)
    /\ ret[2] # Num(0)

-----------------------------------------------------------------------------
(* bootstrap_car_ci called alone *)

MaxBoot == 2           \* n_iter lies in 0..MaxBoot
BootWindow == 3        \* bootstrap_car_ci alone: window_len lies in 1..BootWindow
BootSlack == 2         \* ... and the history length within BootSlack of window_len + 10

BootReturns(n, pat) == [k \in 1..n |-> Point(k, Num(((k * k + pat) % 5) - 2))]

BootArgs ==
    {[returns |-> BootReturns(w + BootMargin + d, pat), window_len |-> w, n_iter |-> n] :
        w \in 1..BootWindow, d \in -BootSlack..BootSlack, pat \in 0..1, n \in 0..MaxBoot}

RngStreams == [1..MaxBoot -> 0..(RngRange - 1)]

InitBoot ==
    /\ pc = "boot_call"
    /\ args \in BootArgs
    /\ ret = None
    /\ rng \in RngStreams
    /\ IdleRun

CallBootstrapCarCi ==
    /\ pc = "boot_call"
    /\ ret' = BootstrapCarCi(rng, args.returns, args.window_len, args.n_iter)
    /\ pc' = "boot_done"
    /\ UNCHANGED <<args, rng, runVars>>

NextBoot == CallBootstrapCarCi

SpecBoot == InitBoot /\ [][NextBoot]_vars

\* C4: bootstrap_car_ci returns (NaN, NaN) unless the history length strictly
\* exceeds window_len + 10; a history of exactly window_len + 10 gives (NaN, NaN).
C4_NaNUnlessExceeds ==
    (pc = "boot_done" /\ Len(args.returns) <= args.window_len + 10)
        => ret = <<NaN, NaN>>

-----------------------------------------------------------------------------
(* run_event_study *)

EstLen == 16           \* hours of the estimation window
EvPre == 2             \* hours of the event window before the anchor
MaxEvents == 3         \* rows of an event table
ManyEvents == 6        \* rows of an event table of the target's events alone

Target == "ALT-USD"
Benchmark == "BTC-USD"
OtherSymbol == "ETH-USD"

AllColumns == {"symbol", "open", "high", "low", "close", "volume"}

\* Hours of the price history 0..LastHour. AnchorA and AnchorB have both windows
\* inside the history, AnchorC lies far outside of it. GapEst is an hour of both
\* estimation windows, GapEv an hour of AnchorB's event window alone.
AnchorA == EvPre + EstLen + 1
AnchorB == AnchorA + EvPre
LastHour == AnchorB + EvPre
AnchorC == 3 * LastHour
GapEst == AnchorA - EvPre - 5
GapEv == AnchorA + EvPre + 1
BenchGapEst == GapEst - 2

\* The benchmark's hourly log return; flat across the hours a table may leave out
\* of the estimation windows, so that the return after a gap is that hour's own.
BenchRet(h) == IF h \in {GapEst, BenchGapEst} THEN 0 ELSE (h % 3) - 1

RECURSIVE BenchExp(_)
BenchExp(h) == IF h = 0 THEN 0 ELSE BenchExp(h - 1) + BenchRet(h)

\* The target moves twice as much as the benchmark, and from the hour after
\* AnchorA on it carries a shock of its own.
ShockLevel(h) == IF h <= AnchorA THEN 0 ELSE 2 * (h - AnchorA) * (h - AnchorA) - 1

TargetExp(h) == 2 * BenchExp(h) + ShockLevel(h)

\* the rows of a price table sorted by time: at each hour the target's bar unless
\* the hour is in gaps, then the benchmark's unless in bgaps; off shifts the
\* target's bars off the hour
RECURSIVE PriceRows(_, _, _, _)
PriceRows(h, gaps, bgaps, off) ==
    IF h > LastHour THEN <<>>
    ELSE (IF h \in gaps THEN <<>>
          ELSE <<[symbol |-> Target, t |-> h * TicksPerHour + off,
                  close |-> Price(TargetExp(h))]>>)
         \o (IF h \in bgaps THEN <<>>
             ELSE <<[symbol |-> Benchmark, t |-> h * TicksPerHour,
                     close |-> Price(BenchExp(h))]>>)
         \o PriceRows(h + 1, gaps, bgaps, off)

Table(cols, gaps, bgaps, off) ==
    [columns |-> cols, rows |-> PriceRows(0, gaps, bgaps, off)]

\* tables that differ in shape: complete, off the hour, a column missing, no row
\* of the target, no row at all
ShapeTables ==
    {Table(AllColumns, {}, {}, 0), Table(AllColumns, {}, {}, 1),
     Table(AllColumns \ {"symbol"}, {}, {}, 0),
     Table(AllColumns \ {"close"}, {}, {}, 0),
     Table(AllColumns \ {"high"}, {}, {}, 0),
     Table(AllColumns, 0..LastHour, {}, 0),
     Table(AllColumns, 0..LastHour, 0..LastHour, 0)}

\* tables that differ in coverage: hours missing for the target, the benchmark
GapTables ==
    {Table(AllColumns, gaps, bgaps, 0) :
        gaps \in SUBSET {GapEst, GapEv}, bgaps \in {{}, {BenchGapEst, AnchorA}}}

Utc(h) == [local |-> h * TicksPerHour, utcoffset |-> 0]
UtcPlusOne(h) == [local |-> (h + 1) * TicksPerHour, utcoffset |-> TicksPerHour]

TargetKinds ==
    {[symbol |-> Target, ts_utc |-> Utc(AnchorA)],
     [symbol |-> Target, ts_utc |-> UtcPlusOne(AnchorB)],
     [symbol |-> Target, ts_utc |-> Utc(AnchorC)]}

EventKinds == TargetKinds \cup {[symbol |-> OtherSymbol, ts_utc |-> Utc(AnchorA)]}

\* the event tables of lo..hi rows over the kinds K, the k-th row having id k
EventTables(K, lo, hi) ==
    {[k \in 1..Len(q) |->
         [event_id |-> k, ts_utc |-> q[k].ts_utc, symbol |-> q[k].symbol]] :
        q \in UNION {[1..m -> K] : m \in lo..hi}}

\* the shape of the defaults (the estimation window ends on the hour the event
\* window starts), and an estimation window that ends before a shorter event window
WindowsChoices ==
    {[estimation |-> <<-(EvPre + EstLen - 1), -EvPre>>, event |-> <<-EvPre, EvPre>>],
     [estimation |-> <<-(EvPre + EstLen), -(EvPre + 1)>>, event |-> <<-EvPre, EvPre - 1>>]}

DefaultLike == [estimation |-> <<-(EvPre + EstLen - 1), -EvPre>>, event |-> <<-EvPre, EvPre>>]

\* the draws of the seed, fixed for every call
MainStream == [k \in 1..MaxBoot |-> (3 * k) % RngRange]

ModelCfg(b, u) == [benchmark |-> b, use_bootstrap |-> u, n_boot |-> MaxBoot]

\* tables of every shape, without a benchmark table or with one that lacks a column
InitShapes ==
    /\ prices \in ShapeTables
    /\ \/ bench_prices = Nothing /\ cfg = ModelCfg(None, FALSE)
       \/ /\ bench_prices = Some(Table(AllColumns \ {"low"}, {}, {}, 0))
          /\ cfg = ModelCfg(Benchmark, FALSE)
    /\ events \in EventTables(EventKinds, 0, MaxEvents)
    /\ windows = DefaultLike
    /\ rng = MainStream

\* tables of every coverage, both models, with and without bootstrap
InitModels ==
    /\ prices \in GapTables
    /\ bench_prices = Some(prices)
    /\ events \in EventTables(EventKinds \ {[symbol |-> Target, ts_utc |-> Utc(AnchorC)]},
                              0, MaxEvents)
    /\ cfg \in {ModelCfg(b, u) : b \in {None, Benchmark}, u \in BOOLEAN}
    /\ windows \in WindowsChoices
    /\ rng = MainStream

\* an event table sorted by time, as load_events_csv leaves it
SortedByTime(ev) ==
    \A k \in 1..(Len(ev) - 1) :
        ToDatetimeUtc(ev[k].ts_utc) <= ToDatetimeUtc(ev[k + 1].ts_utc)

\* many events of the target, sorted by time
InitMany ==
    /\ prices \in {Table(AllColumns, {}, {}, 0), Table(AllColumns, {GapEv}, {}, 0)}
    /\ bench_prices = Nothing
    /\ events \in {ev \in EventTables(TargetKinds, MinFinalCars - 1, ManyEvents) :
                      SortedByTime(ev)}
    /\ cfg = ModelCfg(Benchmark, FALSE)
    /\ windows = DefaultLike
    /\ rng = MainStream

Init ==
    /\ pc = "start"
    /\ symbol = Target
    /\ InitShapes \/ InitModels \/ InitMany
    /\ row = 0
    /\ sym_ret = <<>>
    /\ bench_ret = Nothing
    /\ per_event = <<>>
    /\ boot_calls = <<>>
    /\ result = [kind |-> "none"]
    /\ args = None
    /\ ret = None

inputVars == <<prices, bench_prices, events, symbol, cfg, windows, rng, callVars>>

\* lines 90-101: the frames of the symbol and of the benchmark, their returns
Prepare ==
    /\ pc = "start"
    /\ LET sym_df == EnsureSymbolFrame(prices, symbol)
           use_bench == /\ cfg.benchmark # None
                        /\ bench_prices # Nothing
                        /\ symbol # cfg.benchmark
           bdf == IF use_bench /\ ~IsError(sym_df)
                  THEN EnsureSymbolFrame(bench_prices[1], cfg.benchmark)
                  ELSE sym_df
       IN  IF IsError(sym_df) \/ IsError(bdf)
           THEN /\ result' = IF IsError(sym_df) THEN sym_df ELSE bdf
                /\ pc' = "raised"
                /\ UNCHANGED <<sym_ret, bench_ret>>
           ELSE /\ sym_ret' = ToReturns(CloseColumn(sym_df))
                /\ bench_ret' = IF use_bench THEN Some(ToReturns(CloseColumn(bdf)))
                                ELSE Nothing
                /\ pc' = "loop"
                /\ UNCHANGED result
    /\ UNCHANGED <<inputVars, row, per_event, boot_calls>>

\* lines 103-105: a row of another symbol is passed over
SkipRow ==
    /\ pc = "loop"
    /\ row < Len(events)
    /\ events[row + 1].symbol # symbol
    /\ row' = row + 1
    /\ UNCHANGED <<pc, inputVars, sym_ret, bench_ret, per_event, boot_calls, result>>

\* the loop without its filter: any row gives one EventResult
ProcessAnyRow ==
    /\ pc = "loop"
    /\ row < Len(events)
    /\ LET e == StudyEvent(events[row + 1], symbol, sym_ret, bench_ret, cfg, windows, rng)
       IN  /\ per_event' = Append(per_event, e.res)
           /\ boot_calls' = boot_calls \o e.calls
    /\ row' = row + 1
    /\ UNCHANGED <<pc, inputVars, sym_ret, bench_ret, result>>

\* lines 103-132: a row of the symbol gives one EventResult
ProcessEvent ==
    /\ pc = "loop"
    /\ row < Len(events)
    /\ events[row + 1].symbol = symbol
    /\ LET e == StudyEvent(events[row + 1], symbol, sym_ret, bench_ret, cfg, windows, rng)
       IN  /\ per_event' = Append(per_event, e.res)
           /\ boot_calls' = boot_calls \o e.calls
    /\ row' = row + 1
    /\ UNCHANGED <<pc, inputVars, sym_ret, bench_ret, result>>

\* lines 134-161: after the last row, the aggregate or the error
Aggregate ==
    /\ pc = "loop"
    /\ row = Len(events)
    /\ result' = AggregateOf(per_event, windows)
    /\ pc' = IF IsError(result') THEN "raised" ELSE "done"
    /\ UNCHANGED <<inputVars, row, sym_ret, bench_ret, per_event, boot_calls>>

Next == Prepare \/ SkipRow \/ ProcessEvent \/ Aggregate

Spec == Init /\ [][Next]_vars

-----------------------------------------------------------------------------
(* Properties of run_event_study *)

Returned == pc = "done"
Raised == pc = "raised"

\* the rows of the event table whose symbol is the requested one, in table order
MatchingRows == SortedSeq({k \in 1..Len(events) : events[k].symbol = symbol})

\* C2: with zero rows of the requested symbol in the event table (the empty
\* table included), run_event_study returns no AggregateResult and ends raising
\* an error.
C2_RaisesWithoutEvents ==
    MatchingRows = <<>> =>
        /\ ~Returned
        /\ result.kind # "ok"
        /\ (pc = "loop" /\ row = Len(events)) => per_event = <<>>
        /\ Raised => IsError(result)

\* a table of rows of other symbols alone, read to its end, then the error
C2_Witness ==
    /\ MatchingRows = <<>>
    /\ Len(events) = MaxEvents
    /\ Raised
    /\ row = Len(events)
    /\ result = Raise("No events for symbol")

LacksColumn(df) == "symbol" \notin df.columns \/ RequiredColumns \ df.columns # {}

NoRowsOf(df, sym) == \A k \in 1..Len(df.rows) : df.rows[k].symbol # sym

\* the call reads the benchmark's table
UsesBenchmark == cfg.benchmark # None /\ bench_prices # Nothing /\ symbol # cfg.benchmark

AllMissing(s) == \A k \in 1..Len(s) : IsNaN(s[k].v)

\* C3 as stated: when the price table lacks a required column, or filtering it
\* to the target symbol leaves no rows, run_event_study raises instead of
\* producing a result.
C3_RaisesOnBadPrices ==
    (LacksColumn(prices) \/ NoRowsOf(prices, symbol)) => ~Returned

\* C3 as amended: a price table (the target's, or the benchmark's when it is
\* read) that lacks the symbol column or one of open, high, low, close makes
\* run_event_study raise at once, before any event is read; a table with no row of the target does not: the call goes on through
\* the event table and, given a matching event, returns a result whose AR
\* curves are missing at every hour.
C3_RaisesOnMissingColumn ==
    /\ (LacksColumn(prices) \/ (UsesBenchmark /\ LacksColumn(bench_prices[1]))) =>
          /\ pc \in {"start", "raised"}
          /\ Raised => IsError(result) /\ row = 0 /\ per_event = <<>>
    /\ (~LacksColumn(prices) /\ NoRowsOf(prices, symbol) /\ bench_prices = Nothing) =>
          /\ pc # "start" => sym_ret = <<>>
          /\ Raised => MatchingRows = <<>> /\ row = Len(events)
          /\ Returned =>
                /\ Len(result.per_event) = Len(MatchingRows)
                /\ \A j \in 1..Len(result.per_event) : AllMissing(result.per_event[j].ar)
                /\ AllMissing(result.mean_ar)

\* a table without a row of the target, an event of the target, and a result
C3_Witness ==
    /\ ~LacksColumn(prices)
    /\ NoRowsOf(prices, symbol)
    /\ prices.rows # <<>>
    /\ Returned
    /\ Len(result.per_event) >= 1
    /\ AllMissing(result.mean_ar)

\* the last value present of a series, NaN when it has none
LastPresent(s) ==
    IF AllMissing(s) THEN NaN
    ELSE s[CHOOSE k \in 1..Len(s) :
              ~IsNaN(s[k].v) /\ \A m \in (k + 1)..Len(s) : IsNaN(s[m].v)].v

\* the events whose CAR has a value
WithTerminalCar(pe) == {j \in 1..Len(pe) : ~AllMissing(pe[j].car)}

\* C6: the aggregate interval is (NaN, NaN) whenever fewer than 5 events have a
\* defined terminal CAR (the last non-missing value of the event's CAR), events
\* with an entirely missing CAR not counting; with 5 or more it is the
\* 2.5th/97.5th percentile of those terminal CARs.
C6_AggregateCiNeedsFive ==
    Returned =>
        LET D == WithTerminalCar(result.per_event)
            idx == SortedSeq(D)
            terminal == Tuple([k \in 1..Len(idx) |-> LastPresent(result.per_event[idx[k]].car)])
        IN  /\ Cardinality(D) < 5 => result.car_ci = <<NaN, NaN>>
            /\ Cardinality(D) >= 5 =>
                  /\ result.car_ci = <<NanPercentile(terminal, 25), NanPercentile(terminal, 975)>>
                  /\ ~IsNaN(result.car_ci[1]) /\ ~IsNaN(result.car_ci[2])
                  /\ ~FLess(result.car_ci[2], result.car_ci[1])
                  /\ \E k \in 1..Len(terminal) : ~FLess(result.car_ci[1], terminal[k])
                  /\ \E k \in 1..Len(terminal) : ~FLess(terminal[k], result.car_ci[2])

\* five events with a terminal CAR and one without: an interval of two distinct ends
C6_Witness ==
    /\ Returned
    /\ Len(result.per_event) = 6
    /\ Cardinality(WithTerminalCar(result.per_event)) = 5
    /\ ~IsNaN(result.car_ci[1])
    /\ result.car_ci[1] # result.car_ci[2]

\* the labels of a series, in order
Index(s) == Tuple([k \in 1..Len(s) |-> s[k].t])

\* the integers a..b, ascending
Range(a, b) == Tuple([k \in 1..(b - a + 1) |-> a + k - 1])

\* C7: for any number N >= 1 of matching events and the event window
\* (start, end), the mean AR curve and the mean CAR curve each have exactly
\* end - start + 1 points, indexed start..end, whatever the coverage of the
\* prices; relabelling the curve never fails.
C7_MeanCurveIndex ==
    /\ Returned =>
          /\ Index(result.mean_ar) = Range(windows.event[1], windows.event[2])
          /\ Index(result.mean_car) = Range(windows.event[1], windows.event[2])
          /\ Len(result.mean_ar) = windows.event[2] - windows.event[1] + 1
    /\ (Raised /\ per_event # <<>>) => result # Raise("Length mismatch")

\* events of different coverage, one without any data, a price table with a gap
C7_Witness ==
    /\ Returned
    /\ Len(result.per_event) >= 3
    /\ \E j \in 1..Len(result.per_event) : AllMissing(result.per_event[j].ar)
    /\ \E j \in 1..Len(result.per_event) : \E k \in 1..Len(result.per_event[j].ar) :
          /\ IsNaN(result.per_event[j].ar[k].v)
          /\ ~AllMissing(result.per_event[j].ar)
    /\ Len(result.mean_ar) = 2 * EvPre + 1
    /\ result.mean_ar[1].t = -EvPre

\* the events with an AR at relative hour h
Contributing(pe, h) ==
    {j \in 1..Len(pe) : ~IsNaN(At(pe[j].ar, pe[j].t0 + h * TicksPerHour))}

\* C8: at every relative hour h of the event window the mean AR is the simple
\* average, over the events with a non-missing AR at their hour t0 + h, of
\* that AR (missing when no event has one): values of different relative
\* hours are never averaged together.
C8_MeanByRelativeHour ==
    Returned =>
        \A h \in windows.event[1]..windows.event[2] :
            LET pe == result.per_event
                C == Contributing(pe, h)
            IN  At(result.mean_ar, h) =
                    IF C = {} THEN NaN
                    ELSE FDivInt(SumFn([j \in C |-> At(pe[j].ar, pe[j].t0 + h * TicksPerHour)]),
                                 Cardinality(C))

\* two events with different missing hours and different ARs at an hour both have
C8_Witness ==
    /\ Returned
    /\ Len(result.per_event) >= 2
    /\ \E h \in windows.event[1]..(windows.event[2] - 1) :
          /\ Contributing(result.per_event, h) = {1}
          /\ Cardinality(Contributing(result.per_event, h + 1)) >= 2
          /\ At(result.per_event[1].ar, result.per_event[1].t0 + (h + 1) * TicksPerHour)
                # At(result.per_event[2].ar, result.per_event[2].t0 + (h + 1) * TicksPerHour)

\* C9: after run_event_study returns, per_event holds exactly one EventResult
\* for each row of the target symbol and none for other rows, in the order of
\* the rows, each with that row's event_id and anchor time.
C9_OneResultPerMatchingRow ==
    Returned =>
        /\ result.per_event = per_event
        /\ Len(per_event) = Len(MatchingRows)
        /\ \A j \in 1..Len(per_event) :
              /\ per_event[j].event_id = ToString(events[MatchingRows[j]].event_id)
              /\ per_event[j].symbol = symbol
              /\ per_event[j].t0 = events[MatchingRows[j]].ts_utc.local
                                      - events[MatchingRows[j]].ts_utc.utcoffset

\* a row of another symbol between two rows of the target: two results, in order
C9_Witness ==
    /\ Returned
    /\ Len(events) = 3
    /\ MatchingRows = <<1, 3>>
    /\ Len(per_event) = 2
    /\ per_event[1].event_id = "1" /\ per_event[2].event_id = "3"
    /\ per_event[1].t0 > per_event[2].t0

\* the calls of bootstrap_car_ci made for the event of EventResult e
CallsFor(e) == {k \in 1..Len(boot_calls) : boot_calls[k].event_id = e.event_id}

FullLen(e) == Cardinality({k \in 1..Len(e.ar) : ~IsNaN(e.ar[k].v)})

EstSeries(e) == DropNa(SliceWindow(sym_ret, e.t0, windows.estimation))

\* C10: the interval of an event is computed (bootstrap_car_ci is called) if
\* and only if bootstrapping is enabled, the event's AR has more than 3
\* non-missing values and the estimation-window history, missing values
\* dropped, has more than that count + 10 observations; it is then computed
\* once, over that history, with the count as window length and the configured
\* iterations; in every other case the interval is (NaN, NaN).
C10_PerEventCi ==
    \A j \in 1..Len(per_event) :
        LET e == per_event[j]
            due == /\ cfg.use_bootstrap
                   /\ FullLen(e) > 3
                   /\ Len(EstSeries(e)) > FullLen(e) + 10
        IN  /\ due <=> CallsFor(e) # {}
            /\ ~due => e.car_ci = <<NaN, NaN>>
            /\ due =>
                  /\ Cardinality(CallsFor(e)) = 1
                  /\ \A k \in CallsFor(e) :
                        /\ boot_calls[k].window_len = FullLen(e)
                        /\ boot_calls[k].returns = EstSeries(e)
                        /\ boot_calls[k].n_iter = cfg.n_boot
                  /\ ~IsNaN(e.car_ci[1]) /\ ~IsNaN(e.car_ci[2])

\* bootstrapping enabled: an event whose history is exactly 10 longer than its AR
\* count and has no interval, and an event with an interval
C10_Witness ==
    /\ Returned
    /\ cfg.use_bootstrap
    /\ \E j \in 1..Len(per_event) :
          /\ FullLen(per_event[j]) > 3
          /\ Len(EstSeries(per_event[j])) = FullLen(per_event[j]) + 10
          /\ per_event[j].car_ci = <<NaN, NaN>>
    /\ \E j \in 1..Len(per_event) :
          /\ CallsFor(per_event[j]) # {}
          /\ ~IsNaN(per_event[j].car_ci[1])

-----------------------------------------------------------------------------
(* _market_model_ar called alone *)

MmEst == 3             \* hours of the estimation window
MmEv == 1              \* hours of the event window on each side of the anchor

MmLastHour == MmEst + 2 * MmEv
MmAnchor == (MmEst + MmEv) * TicksPerHour

\* what a return series holds at an hour: no row, or a return of 0 or 1
MmCells == {"absent", "low", "high"}

\* the return series with the rows f gives to the hours from h on
RECURSIVE MmSeries(_, _)
MmSeries(f, h) ==
    IF h > MmLastHour THEN <<>>
    ELSE (IF f[h] = "absent" THEN <<>>
          ELSE <<Point(h * TicksPerHour, Num(IF f[h] = "high" THEN 1 ELSE 0))>>)
         \o MmSeries(f, h + 1)

\* the estimation window is the MmEst hours before the event window
MmWindows ==
    [estimation |-> <<-(MmEv + MmEst), -(MmEv + 1)>>, event |-> <<-MmEv, MmEv>>]

MmArgs ==
    {[target_rets |-> MmSeries(f, 0), bench_rets |-> b, t0 |-> MmAnchor,
      windows |-> MmWindows] :
        f \in [0..MmLastHour -> MmCells],
        b \in {Nothing, Some(MmSeries([h \in 0..MmLastHour |-> "high"], 0))}}

InitMm ==
    /\ pc = "mm_call"
    /\ args \in MmArgs
    /\ ret = None
    /\ rng = <<>>
    /\ IdleRun

CallMarketModelAr ==
    /\ pc = "mm_call"
    /\ ret' = MarketModelAr(args.target_rets, args.bench_rets, args.t0, args.windows)
    /\ pc' = "mm_done"
    /\ UNCHANGED <<args, rng, runVars>>

NextMm == CallMarketModelAr

SpecMm == InitMm /\ [][NextMm]_vars

\* the labels of the hours of window w around t0
WindowLabels(t0, w) == {t0 + h * TicksPerHour : h \in w[1]..w[2]}

\* the labels of the estimation window at which the target has a return
EstPresent ==
    {t \in WindowLabels(args.t0, args.windows.estimation) :
        ~IsNaN(At(args.target_rets, t))}

\* the returns of the estimation window are all equal
ZeroVariance ==
    \A t \in EstPresent : \A u \in EstPresent :
        At(args.target_rets, t) = At(args.target_rets, u)

MeanAdjusted == pc = "mm_done" /\ args.bench_rets = Nothing

\* alpha is the mean of the estimation window (0.0 when it is empty), beta is 0
MeanAdjustedFit ==
    /\ EstPresent = {} => ret[2] = Num(0)
    /\ EstPresent # {} =>
          FMul(ret[2], Num(Cardinality(EstPresent)))
              = SumFn([t \in EstPresent |-> At(args.target_rets, t)])
    /\ ret[3] = Num(0)

\* C11 as stated: under the mean-adjusted model, a zero-variance estimation
\* window gives an abnormal return of 0 at every hour of the event window, with
\* alpha the estimation-window mean (0.0 when empty) and beta 0.
C11_ZeroVarianceZeroAr ==
    (MeanAdjusted /\ ZeroVariance) =>
        /\ MeanAdjustedFit
        /\ \A k \in 1..Len(ret[1]) : ret[1][k].v = Num(0)

\* C11 as amended: under the mean-adjusted model alpha is the estimation-window
\* mean (0.0 when empty), beta is 0, and the abnormal return at each hour of the
\* event window is that hour's return minus alpha, missing where the return is
\* missing; with a zero-variance estimation window it is 0 at the hours whose
\* return equals the estimation window's, and only there.
C11_MeanAdjustedAr ==
    MeanAdjusted =>
        /\ MeanAdjustedFit
        /\ Len(ret[1]) = args.windows.event[2] - args.windows.event[1] + 1
        /\ \A k \in 1..Len(ret[1]) :
              LET t == args.t0 + (args.windows.event[1] + k - 1) * TicksPerHour
              IN  /\ ret[1][k].t = t
                  /\ ret[1][k].v = FSub(At(args.target_rets, t), ret[2])
                  /\ (ZeroVariance /\ EstPresent # {}) =>
                        (ret[1][k].v = Num(0)
                            <=> \E u \in EstPresent :
                                   At(args.target_rets, t) = At(args.target_rets, u))

\* a flat estimation window of several hours, and an event window with an hour
\* at the same return, an hour at another and an hour without one
C11_Witness ==
    /\ MeanAdjusted
    /\ ZeroVariance
    /\ Cardinality(EstPresent) >= 2
    /\ \E k \in 1..Len(ret[1]) : ret[1][k].v = Num(0)
    /\ \E k \in 1..Len(ret[1]) : ~IsNaN(ret[1][k].v) /\ ret[1][k].v # Num(0)
    /\ \E k \in 1..Len(ret[1]) : IsNaN(ret[1][k].v)

-----------------------------------------------------------------------------
(* the cumulative abnormal return *)

\* the sum of the values s holds at the positions of P
SumAt(s, P) == SumFn([j \in P |-> s[j].v])

\* the positions up to k at which s has a value
PresentUpTo(s, k) == {j \in 1..k : ~IsNaN(s[j].v)}

\* c is the running sum of a, a missing value of a being skipped by the sum and
\* missing in c at its own position alone
RunningSumSkipping(a, c) ==
    /\ Len(c) = Len(a)
    /\ \A k \in 1..Len(a) :
          /\ c[k].t = a[k].t
          /\ c[k].v = IF IsNaN(a[k].v) THEN NaN ELSE SumAt(a, PresentUpTo(a, k))

\* c is the running sum of a, missing from the first missing value of a on
RunningSumPropagating(a, c) ==
    /\ Len(c) = Len(a)
    /\ \A k \in 1..Len(a) :
          /\ c[k].t = a[k].t
          /\ c[k].v = IF PresentUpTo(a, k) = 1..k THEN SumAt(a, 1..k) ELSE NaN

\* C12 as stated: each event's CAR is the running sum of its AR over the event
\* window, and a missing AR at some hour makes the CAR missing from that hour on.
C12_CarPropagatesMissing ==
    \A i \in 1..Len(per_event) :
        RunningSumPropagating(per_event[i].ar, per_event[i].car)

\* C12 as amended: each event's CAR is the running sum of its AR over the event
\* window with missing values skipped: the CAR is missing exactly at the hours
\* whose AR is missing, and at every other hour it is the sum of the AR values
\* present up to that hour; the mean CAR runs over the mean AR the same way.
C12_CarSkipsMissing ==
    /\ \A i \in 1..Len(per_event) :
          RunningSumSkipping(per_event[i].ar, per_event[i].car)
    /\ Returned => RunningSumSkipping(result.mean_ar, result.mean_car)

\* an event whose AR has values, then a missing hour, then a value again, and
\* whose CAR has a value after the missing hour
C12_Witness ==
    \E i \in 1..Len(per_event) :
        LET a == per_event[i].ar
            c == per_event[i].car
        IN  \E j \in 2..Len(a) :
                /\ IsNaN(a[j].v) /\ IsNaN(c[j].v)
                /\ ~IsNaN(a[j - 1].v) /\ a[j - 1].v # Num(0)
                /\ \E k \in (j + 1)..Len(a) : ~IsNaN(a[k].v) /\ ~IsNaN(c[k].v)

=============================================================================
